---- MODULE Spec2Model ----
(***************************************************************************)
(* Model of the sampler/averager loop of voice-tool (src/src/main.rs).     *)
(*                                                                         *)
(* The program polls the free-running ADC FIFO, drains the pending samples *)
(* into a rolling window, averages the first `windowlen` entries of the    *)
(* window and writes the scaled average to the PWM duty register, forever. *)
(* The ADC hardware enqueues samples on its own clock, interleaved with    *)
(* every step of the loop.                                                 *)
(***************************************************************************)
EXTENDS Integers, Sequences, FiniteSets, TLC

(***************************************************************************)
(* Bounds of the model.                                                    *)
(***************************************************************************)
\* Number of conversions the ADC delivers into the FIFO before it goes quiet.
MaxProduced == 207

\* Depth of the hardware sample FIFO (a conversion that completes while the
\* FIFO is full is discarded by the hardware and leaves the FIFO unchanged).
FifoDepth == 4

(***************************************************************************)
(* Program constants.                                                      *)
(***************************************************************************)
\* let mut window: [u16; 105]
WindowCap == 105

\* let mut windowlen = 100;   (never reassigned)
windowlen == 100

\* 12-bit conversion results (shift_8bit() is commented out)
SampleMax == 4095

\* the literals of `25000/4096`
DutyRange == 25000

SampleRange == 4096

\* u16 arithmetic
U16 == 2^16

\* `25000/4096`, evaluated in u16
ScaleFactor == DutyRange \div SampleRange

(***************************************************************************)
(* The analog input.  The sequence of conversion results is one of a few   *)
(* signals, chosen when the system starts; sample k (k = 1, 2, ...) of a   *)
(* signal is a 12-bit value.                                               *)
(***************************************************************************)
Signals == {"zero", "ten", "full", "ramp", "saw", "square"}

SampleAt(s, k) ==
    CASE s = "zero"   -> 0
      [] s = "ten"    -> 10
      [] s = "full"   -> SampleMax
      [] s = "ramp"   -> k % SampleRange
      [] s = "saw"    -> (k * 397) % SampleRange
      [] s = "square" -> IF k % 2 = 0 THEN SampleMax ELSE 0

\* What a read of the FIFO register returns: the oldest entry, or, when the
\* FIFO is empty (underflow), a value the hardware leaves unspecified.
FifoRead(q) == IF q # <<>> THEN {Head(q)} ELSE {0, SampleMax}

FifoPop(q) == IF q # <<>> THEN Tail(q) ELSE q

VARIABLES
    sig,         \* the analog signal being converted
    produced,    \* conversions enqueued into the FIFO so far
    adc_fifo,    \* contents of the hardware FIFO, oldest first
    window,      \* the rolling window, indexed 0 .. WindowCap-1
    i,           \* the write cursor
    pc,          \* position of the loop
    sample_len,  \* result of the first adc_fifo.len() of the iteration
    n,           \* loop counter of `for n in 0..sample_len`
    sum,         \* accumulator of the averaging loop
    average,     \* last computed average
    duty,        \* PWM duty register (last value given to set_duty)
    i0,          \* cursor at the start of the current iteration
    reads        \* values returned by adc_fifo.read() in this iteration

vars == <<sig, produced, adc_fifo, window, i, pc, sample_len, n, sum,
          average, duty, i0, reads>>

hw == <<sig, produced, adc_fifo>>

(***************************************************************************)
(* Pure parts of the loop body.                                            *)
(***************************************************************************)
\* Faulty variant: the wrap compares against the capacity of the array.
NextCursorCap(c) == IF c + 1 > WindowCap THEN 0 ELSE c + 1

\* Faulty variant: ring-buffer wrap, the cursor never rests on windowlen.
NextCursorMod(c) == IF c + 1 >= windowlen THEN 0 ELSE c + 1

\* i += 1; if i > windowlen { i = 0; }
NextCursor(c) == IF c + 1 > windowlen THEN 0 ELSE c + 1

\* Faulty variant: an iteration that finds nothing pending starts over
\* without averaging and emitting.
AfterGateSkip(len) == IF len > 0 THEN "read" ELSE "len1"

\* if adc_fifo.len() > 0 { <drain> }   then the averaging follows
AfterGate(len) == IF len > 0 THEN "read" ELSE "average"

\* Faulty variant: inclusive range, one read more than was pending.
MoreToReadInclusive(k, len) == k <= len

\* for n in 0..sample_len
MoreToRead(k, len) == k < len

\* Faulty variant: the accumulator is declared outside the loop and carried
\* from one iteration to the next.
SumStartCarried(s) == s

\* let mut sum: usize = 0;   (declared inside the loop body: the accumulator
\* of the previous iteration, s, is gone)
SumStart(s) == 0

\* w[lo] + ... + w[hi-1].  The accumulator of the averaging loop is a usize
\* (32 bits on the RP2040); at most WindowCap entries below 2^16 are added,
\* so the sum stays below 2^23, no addition wraps, and the order in which the
\* entries are added does not change the result: the range is summed by
\* halves to keep the evaluation shallow.
RECURSIVE SumRange(_, _, _)
SumRange(w, lo, hi) ==
    IF hi <= lo THEN 0
    ELSE IF hi = lo + 1 THEN w[lo]
    ELSE LET mid == (lo + hi) \div 2
         IN  SumRange(w, lo, mid) + SumRange(w, mid, hi)

\* Faulty variant: inclusive slice &window[0..=len].
SumSliceInclusive(w, len) == SumRange(w, 0, len + 1)

\* for s in &window[0..len] { sum = sum + usize::from(*s); }
SumSlice(w, len) == SumRange(w, 0, len)

\* Faulty variant: division rounding to nearest.
QuotientRounded(s, len) == (s + len \div 2) \div len

\* sum / windowlen
Quotient(s, len) == s \div len

\* Faulty variant: multiply first, divide afterwards.
ProductReordered(a) == (a * DutyRange) \div SampleRange

\* average * (25000/4096)
Product(a) == a * ScaleFactor

(***************************************************************************)
(* Initial state: lines 109-112, FIFO started empty, duty register reset.  *)
(***************************************************************************)
Init ==
    /\ sig \in Signals
    /\ produced = 0
    /\ adc_fifo = <<>>
    /\ window = [k \in 0 .. WindowCap - 1 |-> 0]
    /\ i = 0
    /\ pc = "len1"
    /\ sample_len = 0
    /\ n = 0
    /\ sum = 0
    /\ average = 0
    /\ duty = 0
    /\ i0 = 0
    /\ reads = <<>>

(***************************************************************************)
(* The ADC: one conversion result enters the FIFO.                         *)
(***************************************************************************)
Produce ==
    /\ produced < MaxProduced
    /\ Len(adc_fifo) < FifoDepth
    /\ adc_fifo' = Append(adc_fifo, SampleAt(sig, produced + 1))
    /\ produced' = produced + 1
    /\ UNCHANGED <<sig, window, i, pc, sample_len, n, sum, average, duty, i0, reads>>

(***************************************************************************)
(* The loop.                                                               *)
(***************************************************************************)
\* let sample_len = adc_fifo.len();
Len1 ==
    /\ pc = "len1"
    /\ sample_len' = Len(adc_fifo)
    /\ n' = 0
    /\ i0' = i
    /\ reads' = <<>>
    /\ pc' = "len2"
    /\ UNCHANGED <<hw, window, i, sum, average, duty>>

\* if adc_fifo.len() > 0 { for ... }
Len2 ==
    /\ pc = "len2"
    /\ pc' = AfterGate(Len(adc_fifo))
    /\ UNCHANGED <<hw, window, i, sample_len, n, sum, average, duty, i0, reads>>

\* window[i] = adc_fifo.read(); i += 1; if i > windowlen { i = 0; }
ReadSample ==
    /\ pc = "read"
    /\ MoreToRead(n, sample_len)
    /\ \E v \in FifoRead(adc_fifo) :
          /\ adc_fifo' = FifoPop(adc_fifo)
          /\ IF i < WindowCap
             THEN /\ window' = [window EXCEPT ![i] = v]
                  /\ i' = NextCursor(i)
                  /\ n' = n + 1
                  /\ reads' = Append(reads, v)
                  /\ pc' = "read"
             ELSE /\ pc' = "panic"
                  /\ UNCHANGED <<window, i, n, reads>>
    /\ UNCHANGED <<sig, produced, sample_len, sum, average, duty, i0>>

\* the for loop is exhausted
DrainDone ==
    /\ pc = "read"
    /\ ~MoreToRead(n, sample_len)
    /\ pc' = "average"
    /\ UNCHANGED <<hw, window, i, sample_len, n, sum, average, duty, i0, reads>>

\* sum over &window[0..windowlen]; average = (sum / windowlen).try_into().unwrap()
Average ==
    /\ pc = "average"
    /\ IF windowlen <= WindowCap
       THEN /\ sum' = SumStart(sum) + SumSlice(window, windowlen)
            /\ IF Quotient(sum', windowlen) < U16
               THEN /\ average' = Quotient(sum', windowlen)
                    /\ pc' = "emit"
               ELSE /\ pc' = "panic"
                    /\ UNCHANGED average
       ELSE /\ pc' = "panic"
            /\ UNCHANGED <<sum, average>>
    /\ UNCHANGED <<hw, window, i, sample_len, n, duty, i0, reads>>

\* let duty = average * (25000/4096); channel.set_duty(duty);
\* An overflowing u16 multiplication panics in a build with overflow checks
\* and wraps in a build without them.
Emit ==
    /\ pc = "emit"
    /\ \E checked \in BOOLEAN :
          IF Product(average) < U16
          THEN /\ duty' = Product(average)
               /\ pc' = "len1"
          ELSE IF checked
               THEN /\ pc' = "panic"
                    /\ UNCHANGED duty
               ELSE /\ duty' = Product(average) % U16
                    /\ pc' = "len1"
    /\ UNCHANGED <<hw, window, i, sample_len, n, sum, average, i0, reads>>

Loop == Len1 \/ Len2 \/ ReadSample \/ DrainDone \/ Average \/ Emit

Next == Produce \/ Len1 \/ Len2 \/ ReadSample \/ DrainDone \/ Average \/ Emit

Spec == Init /\ [][Next]_vars

\* The processor always executes the next instruction of the loop.  The
\* progress of the loop does not depend on the sample values: the fair
\* behaviours are explored for a silent input and for a rising one.
FairInit == Init /\ sig \in {"zero", "ramp"}

FairSpec == FairInit /\ [][Next]_vars /\ WF_vars(Loop)

(***************************************************************************)
(* Derived quantities used by the properties.                              *)
(***************************************************************************)
\* Number of samples the loop has taken out of the FIFO so far.
Consumed == produced - Len(adc_fifo)

\* Sum of the entries of w at the indices in S.
RECURSIVE SumOver(_, _)
SumOver(w, S) ==
    IF S = {} THEN 0
    ELSE LET k == CHOOSE x \in S : TRUE
         IN  w[k] + SumOver(w, S \ {k})

\* Sum of the active slice, indices 0 .. windowlen-1.
ActiveSum == SumOver(window, 0 .. windowlen - 1)

\* Production number of the j-th sample read in the current iteration.
SampleNo(j) == Consumed - Len(reads) + j

(***************************************************************************)
(* C1.  No out-of-bounds access: the loop never panics, the index of the   *)
(* next write window[i] is always below the capacity of the window, and    *)
(* the slice 0 .. windowlen-1 read by the averaging lies inside the window.*)
(***************************************************************************)
C1_InBounds ==
    /\ pc # "panic"
    /\ i \in 0 .. WindowCap - 1
    /\ windowlen <= WindowCap

\* The write with the largest index the loop ever uses is about to happen.
C1_Witness ==
    pc = "read" /\ MoreToRead(n, sample_len) /\ i = windowlen

(***************************************************************************)
(* C2 (as claimed).  The entries at indices windowlen .. WindowCap-1 are   *)
(* never written and still hold their initial value 0.                     *)
(***************************************************************************)
C2_TailUntouched ==
    \A k \in windowlen .. WindowCap - 1 : window[k] = 0

(***************************************************************************)
(* C3 (as claimed).  After a drain, the j-th sample read is found in the   *)
(* active slice at position (cursor at the start + j - 1), wrapping at     *)
(* windowlen.                                                              *)
(***************************************************************************)
C3_DrainInActiveSlice ==
    pc = "average" =>
        \A j \in 1 .. Len(reads) :
            window[(i0 + j - 1) % windowlen] = reads[j]

(***************************************************************************)
(* C4.  A drain never reads the FIFO while it is empty, performs exactly   *)
(* as many reads as the first len() reported, and the values it reads are  *)
(* the oldest pending samples in production order, whatever the ADC        *)
(* enqueues in between.                                                    *)
(***************************************************************************)
C4_DrainReadsPending ==
    /\ (pc = "read" /\ MoreToRead(n, sample_len)) => adc_fifo # <<>>
    /\ Len(reads) = n
    /\ n <= sample_len
    /\ pc \in {"average", "emit"} => Len(reads) = sample_len
    /\ \A j \in 1 .. Len(reads) : reads[j] = SampleAt(sig, SampleNo(j))

\* In the middle of a drain of two samples, the ADC has enqueued two more.
C4_Witness ==
    /\ pc = "read" /\ sample_len = 2 /\ n = 1
    /\ Len(adc_fifo) = 3
    /\ sig = "ramp"

(***************************************************************************)
(* C5.  The computed average is the floor of (sum of the active slice) /   *)
(* windowlen: an all-10 slice gives 10, a slice that sums to 105 gives 1,  *)
(* the all-zero slice gives 0.                                             *)
(***************************************************************************)
C5_AverageIsFloor ==
    pc = "emit" =>
        /\ average * windowlen <= ActiveSum
        /\ ActiveSum < (average + 1) * windowlen
        /\ (\A k \in 0 .. windowlen - 1 : window[k] = 10) => average = 10
        /\ (\A k \in 0 .. windowlen - 1 : window[k] = 0) => average = 0
        /\ ActiveSum = 105 => average = 1

\* The averaging has run on a slice whose sum is 105.
C5_Witness ==
    pc = "emit" /\ ActiveSum = 105 /\ average = 1

(***************************************************************************)
(* C6.  Every value given to set_duty is average * 6, is at most 24570,    *)
(* and the u16 multiplication does not overflow.                           *)
(***************************************************************************)
C6_DutyScaled ==
    /\ pc # "panic"
    /\ average * 6 < 2^16
    /\ duty <= 24570
    /\ pc # "emit" => duty = average * 6

\* The largest duty has been emitted.
C6_Witness ==
    pc = "len1" /\ average = SampleMax /\ duty = 24570

(***************************************************************************)
(* C7.  The averaging and the emission leave the window and the cursor     *)
(* unchanged, and an iteration whose drain reads nothing computes the same *)
(* average and emits the same duty as the iteration before it.             *)
(***************************************************************************)
C7_AverageEmitPure ==
    [][ /\ pc \in {"average", "emit"} => (window' = window /\ i' = i)
        /\ (pc = "average" /\ pc' = "emit" /\ reads = <<>>) => average' = average
        /\ (pc = "emit" /\ pc' = "len1" /\ reads = <<>>) => duty' = duty
      ]_vars

\* An iteration that read nothing has averaged a window holding samples.
C7_Witness ==
    pc = "emit" /\ reads = <<>> /\ average > 0 /\ duty = Product(average)

(***************************************************************************)
(* C8.  The loop runs drain, average, emit in this order, forever: the     *)
(* positions follow each other in this order only, a drain reads at most   *)
(* what was pending, and under weak fairness of the loop every iteration   *)
(* ends and set_duty is called again and again, whatever the ADC does.     *)
(***************************************************************************)
LoopOrder ==
    { <<"len1", "len2">>, <<"len2", "read">>, <<"len2", "average">>,
      <<"read", "average">>, <<"average", "emit">>, <<"emit", "len1">> }

C8_LoopForever ==
    /\ [][pc' # pc => <<pc, pc'>> \in LoopOrder]_vars
    /\ [](n <= sample_len /\ sample_len <= FifoDepth)
    /\ []<>(pc = "len1")
    /\ []<><<Emit>>_vars

\* The ADC has gone quiet, the FIFO is empty, and the loop starts one more
\* iteration after an emission.
C8_Witness ==
    /\ pc = "len1" /\ produced = MaxProduced /\ adc_fifo = <<>>
    /\ sample_len = 0 /\ duty > 0

(***************************************************************************)
(* C9.  The cursor stays in 0 .. windowlen and, after k samples consumed   *)
(* in total, equals k mod (windowlen + 1): it is windowlen after windowlen *)
(* samples and returns to 0 with the next one.                             *)
(***************************************************************************)
C9_CursorPolicy ==
    /\ i \in 0 .. windowlen
    /\ i = Consumed % (windowlen + 1)
    /\ Consumed = windowlen => i = windowlen
    /\ Consumed = windowlen + 1 => i = 0

\* Exactly windowlen samples have been consumed.
C9_Witness ==
    Consumed = windowlen /\ i = windowlen /\ pc = "read"

(***************************************************************************)
(* C10.  The j-th sample read in an iteration is stored at position        *)
(* (cursor at the start + j - 1) mod (windowlen + 1); that position is     *)
(* windowlen exactly for the samples numbered windowlen + 1,               *)
(* 2 (windowlen + 1), ...; the average is computed from the entries        *)
(* 0 .. windowlen-1 alone, so those samples do not contribute to it, and   *)
(* every other sample read in the iteration is among the averaged entries. *)
(***************************************************************************)
C10_LostSlot ==
    /\ \A j \in 1 .. Len(reads) :
          LET pos == (i0 + j - 1) % (windowlen + 1)
          IN  /\ window[pos] = reads[j]
              /\ pos = windowlen <=> SampleNo(j) % (windowlen + 1) = 0
    /\ pc = "emit" => average = ActiveSum \div windowlen

\* The averaging has run after a drain that stored a non-zero sample at
\* index windowlen.
C10_Witness ==
    /\ pc = "emit"
    /\ \E j \in 1 .. Len(reads) :
          /\ i0 + j - 1 = windowlen
          /\ reads[j] # 0
          /\ SampleNo(j) = 2 * (windowlen + 1)

====
